---- MODULE Spec2Model ----
(***************************************************************************)
(* Model of oto_estimation_checker.py: the pipeline of main() (resolve the *)
(* path, load, sort, write sorted_otoini.txt, filter, group, estimate the  *)
(* two medians, run the two detectors at four thresholds, write            *)
(* result.txt) and the pure functions it is built from.                    *)
(*                                                                         *)
(* Numbers.  Times are integers (ms).  A median of an even number of       *)
(* integers may be a half, so every median is kept DOUBLED (median_start2  *)
(* = 2 * median_start, ms_per_beat2 = 2 * ms_per_beat) and a threshold is  *)
(* kept in hundredths (90 for 0.9).  A comparison of the code such as      *)
(*     median_start - ms_per_beat * threshold < t                          *)
(* is the same comparison with both sides multiplied by 200.  Arithmetic   *)
(* is exact: the rounding of Python floats is not modelled.                *)
(*                                                                         *)
(* Strings.  An alias is a sequence of characters; "iki" and "wo" stand    *)
(* for the single characters U+606F and U+3092 of lines 28 and 29.         *)
(***************************************************************************)
EXTENDS Integers, Sequences, FiniteSets, TLC

VARIABLES
    pc,             \* the last step of main() that completed, or "failed"
    path,           \* what the path names (from line 148 on: path_otoini)
    file_records,   \* the records the oto.ini file holds, in file order
    otoini_data,    \* otoini.data
    filter_ret,     \* what the call of remove_cv_and_rest returned
    sorted_txt,     \* the file sorted_otoini.txt
    l_2d,           \* l_2d of main()
    median_start2,  \* 2 * median_start
    ms_per_beat2,   \* 2 * ms_per_beat
    s,              \* the report under construction (s of main())
    result_txt,     \* the file result.txt
    err             \* the exception that ended the run, or "none"

vars == <<pc, path, file_records, otoini_data, filter_ret, sorted_txt, l_2d,
          median_start2, ms_per_beat2, s, result_txt, err>>

----------------------------------------------------------------------------
(* Bounds of the inputs.                                                   *)

\* Longest oto.ini of the timing family (one alias, varied times).
MaxLen == 4
\* Longest oto.ini of the alias family (varied aliases, one time).
MaxAliasLen == 3

\* File names in ascending string order; "" is the empty file name.
Filenames == <<"", "a.wav", "b.wav">>
TimingFilenames == {"a.wav", "b.wav"}
\* <<offset, preutterance>> of a record of the timing family: the onset
\* times 6, 4 and 10, the first of them at the smaller offset.
Timings == { <<0, 6>>, <<4, 0>>, <<4, 6>> }
ContinuousAlias == <<"a", " ", "k">>
Aliases == { <<"a">>, ContinuousAlias, <<"a", " ", "R">>, <<"a", " ", "-">>,
             <<"a", " ", "iki">>, <<"a", " ", "wo">> }

Oto(f, a, o, p) == [filename |-> f, alias |-> a, offset |-> o, preutterance |-> p]

TimingOtos == { Oto(f, ContinuousAlias, t[1], t[2]) :
                  f \in TimingFilenames, t \in Timings }
\* Every alias in a.wav, and a kept and a dropped alias under the empty name.
AliasOtos == { Oto("a.wav", a, 0, 0) : a \in Aliases }
             \cup { Oto("", a, 0, 0) : a \in {ContinuousAlias, <<"a", " ", "R">>} }

SeqsUpTo(S, n) == UNION { [1..k -> S] : k \in 0..n }

\* The oto.ini files the runs are given.
Inputs == SeqsUpTo(TimingOtos, MaxLen) \cup SeqsUpTo(AliasOtos, MaxAliasLen)

----------------------------------------------------------------------------
(* Helpers of the Python runtime.                                          *)

\* Python's `pat in str` on strings.
In(pat, str) ==
    \E i \in 1..(Len(str) - Len(pat) + 1) : SubSeq(str, i, i + Len(pat) - 1) = pat

\* Python's string order on the file names of the model.
FileRank(f) == CHOOSE i \in 1..Len(Filenames) : Filenames[i] = f

\* attrgetter('filename', 'offset') compared as tuples: a < b.
KeyLess(a, b) ==
    \/ FileRank(a.filename) < FileRank(b.filename)
    \/ a.filename = b.filename /\ a.offset < b.offset

\* sorted() is stable: x goes behind every element whose key is not greater.
InsertByKey(x, sq) ==
    LET later == { i \in 1..Len(sq) : KeyLess(x, sq[i]) }
        at == IF later = {} THEN Len(sq) + 1
              ELSE CHOOSE i \in later : \A j \in later : i <= j
    IN SubSeq(sq, 1, at - 1) \o <<x>> \o SubSeq(sq, at, Len(sq))

RECURSIVE SortByKey(_, _)
SortByKey(sq, n) ==
    IF n = 0 THEN <<>> ELSE InsertByKey(sq[n], SortByKey(sq, n - 1))

InsertInt(x, sq) ==
    LET later == { i \in 1..Len(sq) : x < sq[i] }
        at == IF later = {} THEN Len(sq) + 1
              ELSE CHOOSE i \in later : \A j \in later : i <= j
    IN SubSeq(sq, 1, at - 1) \o <<x>> \o SubSeq(sq, at, Len(sq))

RECURSIVE SortInts(_, _)
SortInts(sq, n) ==
    IF n = 0 THEN <<>> ELSE InsertInt(sq[n], SortInts(sq, n - 1))

\* statistics.median, doubled: the middle element, or the sum of the two
\* middle elements.  On empty data it raises StatisticsError.
Median2(data) ==
    LET n == Len(data)
        srt == SortInts(data, n)
    IN IF n = 0 THEN [raised |-> TRUE, value2 |-> 0]
       ELSE IF n % 2 = 1 THEN [raised |-> FALSE, value2 |-> 2 * srt[(n \div 2) + 1]]
       ELSE [raised |-> FALSE, value2 |-> srt[n \div 2] + srt[(n \div 2) + 1]]

\* int(x) of a doubled value: truncation towards zero.
IntOfHalf(v2) == IF v2 >= 0 THEN v2 \div 2 ELSE -((-v2) \div 2)

----------------------------------------------------------------------------
(* The functions of the module.                                            *)

\* IsContinuous without the test of line 29.
IsContinuous_NoWoTest(alias) ==
    /\ In(<<" ">>, alias)
    /\ ~In(<<" ", "R">>, alias)
    /\ ~In(<<" ", "-">>, alias)
    /\ ~In(<<"iki">>, alias)

\* The condition of the list comprehension of remove_cv_and_rest.
IsContinuous(alias) ==
    /\ In(<<" ">>, alias)
    /\ ~In(<<" ", "R">>, alias)
    /\ ~In(<<" ", "-">>, alias)
    /\ ~In(<<"iki">>, alias)
    /\ ~In(<<" ", "wo">>, alias)

RECURSIVE Comprehension(_, _)
Comprehension(data, i) ==
    IF i > Len(data) THEN <<>>
    ELSE (IF IsContinuous(data[i].alias) THEN <<data[i]>> ELSE <<>>)
         \o Comprehension(data, i + 1)

\* A Python value a call returned: None, or a list.
NoneValue == [kind |-> "None", list |-> <<>>]
ListValue(l) == [kind |-> "list", list |-> l]
\* The call has not returned yet.
NotReturned == [kind |-> "unset", list |-> <<>>]

\* remove_cv_and_rest: what it leaves in otoini.data and what it returns (it
\* has no return statement).
remove_cv_and_rest(data) ==
    [data |-> Comprehension(data, 1), ret |-> NoneValue]

sorted_otoini(data) == SortByKey(data, Len(data))

\* Onset without the offset.
Onset_PreutteranceOnly(oto) == oto.preutterance

\* oto.offset + oto.preutterance of lines 48, 65, 66, 102, 121 and 122.
Onset(oto) == oto.offset + oto.preutterance

RECURSIVE FirstOnsets(_, _)
FirstOnsets(list_oto_2d, g) ==
    IF g > Len(list_oto_2d) THEN <<>>
    ELSE <<Onset(list_oto_2d[g][1])>> \o FirstOnsets(list_oto_2d, g + 1)

median_of_first_preutterance(list_oto_2d) ==
    Median2(FirstOnsets(list_oto_2d, 1))

\* GroupDurations without the test of line 68.
RECURSIVE GroupDurations_NoZeroTest(_, _)
GroupDurations_NoZeroTest(l_oto, i) ==
    IF i > Len(l_oto) THEN <<>>
    ELSE <<(l_oto[i].offset + l_oto[i].preutterance)
           - (l_oto[i - 1].offset + l_oto[i - 1].preutterance)>>
         \o GroupDurations_NoZeroTest(l_oto, i + 1)

\* The inner loop of median_of_ms_per_beat over one group, from index i.
RECURSIVE GroupDurations(_, _)
GroupDurations(l_oto, i) ==
    IF i > Len(l_oto) THEN <<>>
    ELSE LET duration == Onset(l_oto[i]) - Onset(l_oto[i - 1])
         IN (IF duration # 0 THEN <<duration>> ELSE <<>>)
            \o GroupDurations(l_oto, i + 1)

\* l_times of median_of_ms_per_beat.
RECURSIVE Durations(_, _)
Durations(list_oto_2d, g) ==
    IF g > Len(list_oto_2d) THEN <<>>
    ELSE GroupDurations(list_oto_2d[g], 2) \o Durations(list_oto_2d, g + 1)

median_of_ms_per_beat(list_oto_2d) ==
    Median2(Durations(list_oto_2d, 1))

\* One pass of the loop of otoini_2d.  l is the last list appended to l_2d;
\* before the first append it is unbound, and l.append raises.
GroupStep(st, oto) ==
    IF st.raised THEN st
    ELSE LET st1 == IF st.filename # oto.filename
                    THEN [st EXCEPT !.filename = oto.filename,
                                    !.l_2d = Append(@, <<>>)]
                    ELSE st
         IN IF st1.l_2d = <<>>
            THEN [st1 EXCEPT !.raised = TRUE]
            ELSE [st1 EXCEPT !.l_2d[Len(st1.l_2d)] = Append(@, oto)]

RECURSIVE GroupLoop(_, _)
GroupLoop(data, n) ==
    IF n = 0 THEN [l_2d |-> <<>>, filename |-> "", raised |-> FALSE]
    ELSE GroupStep(GroupLoop(data, n - 1), data[n])

otoini_2d(data) == GroupLoop(data, Len(data))

\* OutsideStartBand without the `not` of line 102.
OutsideStartBand_NotDropped(t, mpb2, med2, th) ==
    /\ 100 * med2 - mpb2 * th < 200 * t
    /\ 200 * t < 100 * med2 + mpb2 * th

\* OutsideStartBand with <= for < in line 102: the closed band is accepted.
OutsideStartBand_ClosedBand(t, mpb2, med2, th) ==
    ~ (/\ 100 * med2 - mpb2 * th <= 200 * t
       /\ 200 * t <= 100 * med2 + mpb2 * th)

\* not t_floor < t < t_ceil of detect_bad_wavfiles, times 200.
OutsideStartBand(t, mpb2, med2, th) ==
    ~ (/\ 100 * med2 - mpb2 * th < 200 * t
       /\ 200 * t < 100 * med2 + mpb2 * th)

RECURSIVE detect_bad_wavfiles(_, _, _, _)
detect_bad_wavfiles(list_oto_2d, mpb2, med2, th) ==
    IF list_oto_2d = <<>> THEN <<>>
    ELSE LET first_oto == Head(list_oto_2d)[1]
         IN (IF OutsideStartBand(Onset(first_oto), mpb2, med2, th)
             THEN <<first_oto.filename>> ELSE <<>>)
            \o detect_bad_wavfiles(Tail(list_oto_2d), mpb2, med2, th)

\* not t_floor < relative_position < t_ceil of detect_bad_aliases, times 200.
OutsideBeatBand(rel, mpb2, th) ==
    ~ (/\ mpb2 * (100 - th) < 200 * rel
       /\ 200 * rel < mpb2 * (100 + th))

\* ScanBreaks with `break` for the `continue` of line 126.
RECURSIVE ScanBreaks_BreakAtZero(_, _, _, _)
ScanBreaks_BreakAtZero(l_oto, i, mpb2, th) ==
    IF i > Len(l_oto) THEN FALSE
    ELSE LET relative_position ==
                 (l_oto[i].offset + l_oto[i].preutterance)
                 - (l_oto[i - 1].offset + l_oto[i - 1].preutterance)
         IN IF relative_position = 0 THEN FALSE
            ELSE IF ~ (/\ mpb2 * (100 - th) < 200 * relative_position
                       /\ 200 * relative_position < mpb2 * (100 + th)) THEN TRUE
            ELSE ScanBreaks_BreakAtZero(l_oto, i + 1, mpb2, th)

\* The inner loop of detect_bad_aliases from index i: TRUE when it breaks.
RECURSIVE ScanBreaks(_, _, _, _)
ScanBreaks(l_oto, i, mpb2, th) ==
    IF i > Len(l_oto) THEN FALSE
    ELSE LET relative_position == Onset(l_oto[i]) - Onset(l_oto[i - 1])
         IN IF relative_position = 0 THEN ScanBreaks(l_oto, i + 1, mpb2, th)
            ELSE IF OutsideBeatBand(relative_position, mpb2, th) THEN TRUE
            ELSE ScanBreaks(l_oto, i + 1, mpb2, th)

RECURSIVE detect_bad_aliases(_, _, _)
detect_bad_aliases(list_oto_2d, mpb2, th) ==
    IF list_oto_2d = <<>> THEN <<>>
    ELSE LET l_oto == Head(list_oto_2d)
         IN (IF ScanBreaks(l_oto, 2, mpb2, th)
             THEN <<l_oto[Len(l_oto)].filename>> ELSE <<>>)
            \o detect_bad_aliases(Tail(list_oto_2d), mpb2, th)

\* The thresholds of the four sections of the report, in hundredths.
Thresholds == <<90, 30, 25, 20>>

----------------------------------------------------------------------------
(* main().                                                                 *)

Absent == [exists |-> FALSE, data |-> <<>>]

Num(label, n) == [label |-> label, num |-> n, names |-> <<>>]
Names(label, l) == [label |-> label, num |-> 0, names |-> l]

\* The detector entries s holds so far.
Sections(str) == SelectSeq(str, LAMBDA e : e.label \in {"bad_wavfiles", "bad_aliases"})

Fail(e) ==
    /\ pc' = "failed"
    /\ err' = e

Init ==
    /\ pc = "start"
    /\ \/ path \in {"file", "dir"} /\ file_records \in Inputs
       \/ path \in {"dir_without_otoini", "malformed_file"} /\ file_records = <<>>
    /\ otoini_data = <<>>
    /\ filter_ret = NotReturned
    /\ sorted_txt = Absent
    /\ l_2d = <<>>
    /\ median_start2 = 0
    /\ ms_per_beat2 = 0
    /\ s = <<>>
    /\ result_txt = Absent
    /\ err = "none"

\* Lines 142-148: a directory stands for the oto.ini in it.
Resolve ==
    /\ pc = "start"
    /\ IF path = "dir_without_otoini"
       THEN Fail("AssertionError") /\ UNCHANGED path
       ELSE /\ pc' = "resolved"
            /\ path' = IF path = "dir" THEN "file" ELSE path
            /\ UNCHANGED err
    /\ UNCHANGED <<file_records, otoini_data, filter_ret, sorted_txt, l_2d,
                   median_start2, ms_per_beat2, s, result_txt>>

\* Line 153: utaupy.otoini.load.
Load ==
    /\ pc = "resolved"
    /\ IF path = "malformed_file"
       THEN Fail("ParseError") /\ UNCHANGED otoini_data
       ELSE /\ pc' = "loaded"
            /\ otoini_data' = file_records
            /\ UNCHANGED err
    /\ UNCHANGED <<path, file_records, filter_ret, sorted_txt, l_2d,
                   median_start2, ms_per_beat2, s, result_txt>>

\* Line 154.
Sort ==
    /\ pc = "loaded"
    /\ pc' = "sorted"
    /\ otoini_data' = sorted_otoini(otoini_data)
    /\ UNCHANGED <<path, file_records, filter_ret, sorted_txt, l_2d,
                   median_start2, ms_per_beat2, s, result_txt, err>>

\* SortedView with lines 155 and 158 exchanged: the filter runs first.
SortedView_AfterFilter(data) ==
    [exists |-> TRUE, data |-> remove_cv_and_rest(data).data]

\* What line 155 writes to sorted_otoini.txt.
SortedView(data) == [exists |-> TRUE, data |-> data]

\* Lines 155-156.
WriteSorted ==
    /\ pc = "sorted"
    /\ pc' = "written"
    /\ sorted_txt' = SortedView(otoini_data)
    /\ s' = Append(s, Num("all_aliases", Len(otoini_data)))
    /\ UNCHANGED <<path, file_records, otoini_data, filter_ret, l_2d,
                   median_start2, ms_per_beat2, result_txt, err>>

\* Lines 158-159.
Filter ==
    /\ pc = "written"
    /\ pc' = "filtered"
    /\ LET r == remove_cv_and_rest(otoini_data)
       IN /\ otoini_data' = r.data
          /\ filter_ret' = r.ret
          /\ s' = Append(s, Num("continuous_aliases", Len(r.data)))
    /\ UNCHANGED <<path, file_records, sorted_txt, l_2d, median_start2,
                   ms_per_beat2, result_txt, err>>

\* Lines 161-162.
Group ==
    /\ pc = "filtered"
    /\ LET r == otoini_2d(otoini_data)
       IN IF r.raised
          THEN Fail("UnboundLocalError") /\ UNCHANGED <<l_2d, s>>
          ELSE /\ pc' = "grouped"
               /\ l_2d' = r.l_2d
               /\ s' = Append(s, Num("wavfiles", Len(r.l_2d)))
               /\ UNCHANGED err
    /\ UNCHANGED <<path, file_records, otoini_data, filter_ret, sorted_txt,
                   median_start2, ms_per_beat2, result_txt>>

\* Lines 165-166.
MedianStart ==
    /\ pc = "grouped"
    /\ LET r == median_of_first_preutterance(l_2d)
       IN IF r.raised
          THEN Fail("StatisticsError") /\ UNCHANGED <<median_start2, s>>
          ELSE /\ pc' = "median_start"
               /\ median_start2' = r.value2
               /\ s' = Append(s, Num("median_start", IntOfHalf(r.value2)))
               /\ UNCHANGED err
    /\ UNCHANGED <<path, file_records, otoini_data, filter_ret, sorted_txt,
                   l_2d, ms_per_beat2, result_txt>>

\* Lines 169-173.
MsPerBeat ==
    /\ pc = "median_start"
    /\ LET r == median_of_ms_per_beat(l_2d)
       IN IF r.raised
          THEN Fail("StatisticsError") /\ UNCHANGED <<ms_per_beat2, s>>
          ELSE /\ pc' = "ms_per_beat"
               /\ ms_per_beat2' = r.value2
               /\ s' = s \o << Num("ms_per_beat", IntOfHalf(r.value2)),
                               Num("time_per_beat", IntOfHalf(r.value2)) >>
               /\ UNCHANGED err
    /\ UNCHANGED <<path, file_records, otoini_data, filter_ret, sorted_txt,
                   l_2d, median_start2, result_txt>>

\* Lines 175-197: the next of the eight detector calls, in the order of the
\* code: per threshold, detect_bad_wavfiles and then detect_bad_aliases.
Detect ==
    /\ pc = "ms_per_beat"
    /\ LET k == Len(Sections(s))
           th == Thresholds[(k \div 2) + 1]
           entry == IF k % 2 = 0
                    THEN Names("bad_wavfiles",
                               detect_bad_wavfiles(l_2d, ms_per_beat2, median_start2, th))
                    ELSE Names("bad_aliases",
                               detect_bad_aliases(l_2d, ms_per_beat2, th))
       IN /\ s' = Append(s, entry)
          /\ pc' = IF k + 1 = 2 * Len(Thresholds) THEN "assembled" ELSE pc
    /\ UNCHANGED <<path, file_records, otoini_data, filter_ret, sorted_txt,
                   l_2d, median_start2, ms_per_beat2, result_txt, err>>

\* WriteReport after every line that adds to s, not only after the last.
WriteReport_Partial ==
    /\ pc \in {"ms_per_beat", "assembled"}
    /\ pc' = "done"
    /\ result_txt' = [exists |-> TRUE, data |-> s]
    /\ UNCHANGED <<path, file_records, otoini_data, filter_ret, sorted_txt,
                   l_2d, median_start2, ms_per_beat2, s, err>>

\* Lines 199-200.
WriteReport ==
    /\ pc = "assembled"
    /\ pc' = "done"
    /\ result_txt' = [exists |-> TRUE, data |-> s]
    /\ UNCHANGED <<path, file_records, otoini_data, filter_ret, sorted_txt,
                   l_2d, median_start2, ms_per_beat2, s, err>>

Next ==
    \/ Resolve
    \/ Load
    \/ Sort
    \/ WriteSorted
    \/ Filter
    \/ Group
    \/ MedianStart
    \/ MsPerBeat
    \/ Detect
    \/ WriteReport

Spec == Init /\ [][Next]_vars

----------------------------------------------------------------------------
(* Vocabulary of the properties.                                           *)

\* Both estimates are computed: the detectors may run.
Estimated == pc \in {"ms_per_beat", "assembled", "done"}

\* otoini_2d returned: l_2d holds the groups of otoini_data.
Grouped ==
    \/ pc \in {"grouped", "median_start", "ms_per_beat", "assembled", "done"}
    \/ pc = "failed" /\ err = "StatisticsError"

\* otoini_2d was called, whether it returned or raised.
GroupingCalled == Grouped \/ (pc = "failed" /\ err = "UnboundLocalError")

Range(sq) == { sq[i] : i \in 1..Len(sq) }
NoDuplicates(sq) == \A i, j \in 1..Len(sq) : sq[i] = sq[j] => i = j
FilenamesOf(groups) == [g \in 1..Len(groups) |-> groups[g][1].filename]

\* Thresholds the detectors are examined at: those of the report, the
\* default 0.5 of the signatures, and the ends 0.01 and 1.
ExaminedThresholds == {1, 20, 25, 30, 50, 90, 100}

\* The difference of the onset times of records i - 1 and i of a group.
Delta(l_oto, i) ==
    (l_oto[i].offset + l_oto[i].preutterance)
    - (l_oto[i - 1].offset + l_oto[i - 1].preutterance)

\* Every consecutive pair of the group has one and the same onset time.
OnlyIdenticalOnsets(l_oto) == \A i \in 2..Len(l_oto) : Delta(l_oto, i) = 0

RECURSIVE Flatten(_)
Flatten(groups) ==
    IF groups = <<>> THEN <<>> ELSE Head(groups) \o Flatten(Tail(groups))

\* The records of sq, each as often as sq holds it.
Count(x, sq) == Cardinality({ i \in 1..Len(sq) : sq[i] = x })
SameRecords(a, b) ==
    /\ Len(a) = Len(b)
    /\ \A x \in Range(a) \cup Range(b) : Count(x, a) = Count(x, b)

\* Ascending by file name, and by offset within a file name.
OrderedByFileAndOffset(sq) ==
    \A i \in 1..(Len(sq) - 1) :
        \/ FileRank(sq[i].filename) < FileRank(sq[i + 1].filename)
        \/ /\ sq[i].filename = sq[i + 1].filename
           /\ sq[i].offset <= sq[i + 1].offset

\* A continuous alias, character by character: it holds the separator, the
\* separator is followed by none of R, - and wo, and it holds no iki.
KeptAlias(alias) ==
    /\ \E i \in 1..Len(alias) : alias[i] = " "
    /\ \A i \in 1..Len(alias) :
          /\ alias[i] # "iki"
          /\ (alias[i] = " " /\ i < Len(alias)) => alias[i + 1] \notin {"R", "-", "wo"}
KeptRecords(data) == SelectSeq(data, LAMBDA oto : KeptAlias(oto.alias))

----------------------------------------------------------------------------
(* C1.  Threshold monotonicity: with the groups and the two estimates of a *)
(* run, every file the first-onset check returns at threshold 0.9 it also  *)
(* returns at 0.2, and so does the inter-onset check.                      *)
C1_ThresholdMonotonicity ==
    Estimated =>
        /\ Range(detect_bad_wavfiles(l_2d, ms_per_beat2, median_start2, 90))
              \subseteq Range(detect_bad_wavfiles(l_2d, ms_per_beat2, median_start2, 20))
        /\ Range(detect_bad_aliases(l_2d, ms_per_beat2, 90))
              \subseteq Range(detect_bad_aliases(l_2d, ms_per_beat2, 20))

\* A run where the inter-onset check returns a file at 0.9 and the
\* first-onset check returns more files at 0.2 than at 0.9.
C1_Witness ==
    /\ Estimated
    /\ detect_bad_aliases(l_2d, ms_per_beat2, 90) # <<>>
    /\ Len(detect_bad_wavfiles(l_2d, ms_per_beat2, median_start2, 20))
          > Len(detect_bad_wavfiles(l_2d, ms_per_beat2, median_start2, 90))

----------------------------------------------------------------------------
(* C2.  Empty statistics: a run whose filtered data gives no group, or no  *)
(* consecutive pair with a nonzero onset difference, ends in the tool's    *)
(* own "insufficient data" error and not in the error of the median of the *)
(* statistics library.                                                     *)
EmptyStatistics ==
    /\ Grouped
    /\ \/ l_2d = <<>>
       \/ \A g \in 1..Len(l_2d) : OnlyIdenticalOnsets(l_2d[g])

C2_DedicatedError ==
    (pc = "failed" /\ EmptyStatistics) => err = "InsufficientDataError"

----------------------------------------------------------------------------
(* C3.  As claimed: whenever sorted_otoini.txt is written it holds exactly *)
(* the continuous-alias records the filter retains, sorted.                *)
C3_Original ==
    sorted_txt.exists => sorted_txt.data = KeptRecords(sorted_otoini(file_records))

(* C3, amended.  sorted_otoini.txt is written after the sort and before    *)
(* the filter: it holds every record of the oto.ini, kept by the filter or *)
(* not, ordered by file name and offset, and the filter that runs later    *)
(* leaves the file as it is.                                               *)
C3_SortedViewIsUnfiltered ==
    sorted_txt.exists =>
        /\ SameRecords(sorted_txt.data, file_records)
        /\ OrderedByFileAndOffset(sorted_txt.data)
        /\ pc = "written" => otoini_data = sorted_txt.data
        /\ filter_ret # NotReturned => otoini_data = KeptRecords(sorted_txt.data)

\* The filter dropped records that sorted_otoini.txt holds.
C3_Witness ==
    /\ pc = "filtered"
    /\ sorted_txt.exists
    /\ otoini_data # <<>>
    /\ Len(otoini_data) < Len(sorted_txt.data)

----------------------------------------------------------------------------
(* C4.  Grouping consistency: whenever otoini_2d was called on the sorted  *)
(* records, its groups hold every record exactly once and in order, every  *)
(* group is non-empty and of one file name, no two groups share a file     *)
(* name, and offsets ascend within a group.                                *)
GroupingConsistent(groups, data) ==
    /\ \A g \in 1..Len(groups) :
          /\ groups[g] # <<>>
          /\ \A i \in 1..Len(groups[g]) : groups[g][i].filename = groups[g][1].filename
          /\ \A i \in 1..(Len(groups[g]) - 1) : groups[g][i].offset <= groups[g][i + 1].offset
    /\ Flatten(groups) = data
    /\ \A g, h \in 1..Len(groups) : groups[g][1].filename = groups[h][1].filename => g = h

C4_GroupingConsistency ==
    GroupingCalled => GroupingConsistent(l_2d, otoini_data)

----------------------------------------------------------------------------
(* C5.  Zero-duration exclusion: the duration list of ms_per_beat holds no *)
(* zero, and a group all of whose consecutive pairs have one onset time is *)
(* returned by the inter-onset check at no threshold, whatever the beat.   *)
C5_ZeroDurationExclusion ==
    Grouped =>
        /\ 0 \notin Range(Durations(l_2d, 1))
        /\ \A g \in 1..Len(l_2d) : OnlyIdenticalOnsets(l_2d[g]) =>
              \A th \in ExaminedThresholds : \A mpb2 \in {ms_per_beat2, -8, 8} :
                  l_2d[g][1].filename \notin Range(detect_bad_aliases(l_2d, mpb2, th))

\* A finished run with a group of several records that all share one onset.
C5_Witness ==
    /\ pc = "done"
    /\ \E g \in 1..Len(l_2d) : Len(l_2d[g]) >= 2 /\ OnlyIdenticalOnsets(l_2d[g])
    /\ \E e \in Range(Sections(s)) : e.label = "bad_aliases" /\ e.names # <<>>

----------------------------------------------------------------------------
(* C6.  Median shift: adding a constant c to the offset of every record    *)
(* moves median_start by c and leaves ms_per_beat as it is.                *)
ShiftConstants == {-7, -1, 3, 10}

Shifted(groups, c) ==
    [g \in 1..Len(groups) |->
        [i \in 1..Len(groups[g]) |-> [groups[g][i] EXCEPT !.offset = @ + c]]]

C6_MedianShift ==
    Estimated => \A c \in ShiftConstants :
        /\ median_of_first_preutterance(Shifted(l_2d, c))
              = [raised |-> FALSE, value2 |-> median_start2 + 2 * c]
        /\ median_of_ms_per_beat(Shifted(l_2d, c))
              = [raised |-> FALSE, value2 |-> ms_per_beat2]

\* Two groups with different first onsets, and several durations.
C6_Witness ==
    /\ Estimated
    /\ Len(l_2d) = 2
    /\ l_2d[1][1].offset + l_2d[1][1].preutterance
          # l_2d[2][1].offset + l_2d[2][1].preutterance
    /\ Len(Durations(l_2d, 1)) >= 2

----------------------------------------------------------------------------
(* C7.  As claimed: the filter step leaves the collection it is given as   *)
(* it was and returns the kept records as a new sequence.                  *)
C7_Original ==
    [][(pc = "written" /\ pc' = "filtered") =>
          /\ otoini_data' = otoini_data
          /\ filter_ret' = ListValue(KeptRecords(otoini_data))]_vars

(* C7, amended.  remove_cv_and_rest works by side effect: it replaces the  *)
(* data of the collection it is given by exactly the records whose alias   *)
(* holds the separator and none of the four markers, in their original     *)
(* relative order, and returns nothing.                                    *)
C7_FilterInPlace ==
    [][(pc = "written" /\ pc' = "filtered") =>
          /\ otoini_data' = KeptRecords(otoini_data)
          /\ filter_ret' = NoneValue]_vars

\* The filter dropped a record and kept two.
C7_Witness ==
    /\ pc = "filtered"
    /\ Len(otoini_data) >= 2
    /\ Len(sorted_txt.data) > Len(otoini_data)

----------------------------------------------------------------------------
(* C8.  All or nothing: result.txt is written only by the last step, after *)
(* the load, both estimates and all eight detector calls; a failed run has *)
(* written no report, and nothing follows a failure.                       *)
ReportLabels ==
    <<"all_aliases", "continuous_aliases", "wavfiles", "median_start",
      "ms_per_beat", "time_per_beat",
      "bad_wavfiles", "bad_aliases", "bad_wavfiles", "bad_aliases",
      "bad_wavfiles", "bad_aliases", "bad_wavfiles", "bad_aliases">>

ReportComplete ==
    /\ pc = "done"
    /\ err = "none"
    /\ path = "file"
    /\ sorted_txt.exists
    /\ [i \in 1..Len(result_txt.data) |-> result_txt.data[i].label] = ReportLabels
    /\ Len(Sections(result_txt.data)) = 8

C8_ReportAllOrNothing ==
    /\ [](result_txt.exists => ReportComplete)
    /\ [](pc = "failed" => (~result_txt.exists /\ err # "none"))
    /\ [][pc = "failed" => UNCHANGED vars]_vars
    /\ [][result_txt' # result_txt => (Len(Sections(s)) = 8 /\ pc' = "done")]_vars

\* A run that wrote the report.
C8_Witness ==
    /\ pc = "done"
    /\ result_txt.exists
    /\ \E e \in Range(result_txt.data) : e.names # <<>>

----------------------------------------------------------------------------
(* C9.  Inter-onset check: on the groups of the pipeline and at every      *)
(* threshold, detect_bad_aliases returns, in group order, the file names   *)
(* of exactly the groups with a consecutive pair whose nonzero onset       *)
(* difference is not strictly between ms_per_beat * (1 - threshold) and    *)
(* ms_per_beat * (1 + threshold); no name is returned twice and a group of *)
(* one record is never returned.                                           *)
BadPair(l_oto, i, mpb2, th) ==
    /\ Delta(l_oto, i) # 0
    /\ \/ 200 * Delta(l_oto, i) <= mpb2 * (100 - th)
       \/ 200 * Delta(l_oto, i) >= mpb2 * (100 + th)

C9_InterOnsetCheck ==
    Estimated => \A th \in ExaminedThresholds :
        LET result == detect_bad_aliases(l_2d, ms_per_beat2, th)
            bad == SelectSeq(l_2d, LAMBDA l_oto :
                       \E i \in 2..Len(l_oto) : BadPair(l_oto, i, ms_per_beat2, th))
        IN /\ result = FilenamesOf(bad)
           /\ NoDuplicates(result)
           /\ \A g \in 1..Len(l_2d) :
                 Len(l_2d[g]) = 1 => l_2d[g][1].filename \notin Range(result)

\* The second of two groups is returned at 0.9; the first, of several
\* records, is not.
C9_Witness ==
    /\ pc = "done"
    /\ Len(l_2d) = 2
    /\ Len(l_2d[1]) >= 2
    /\ Sections(s)[2].names = <<"b.wav">>

----------------------------------------------------------------------------
(* C10.  First-onset check: at every threshold detect_bad_wavfiles         *)
(* returns, in group order and once per group, the file names of exactly   *)
(* the groups whose first onset t is not strictly inside the band          *)
(* median_start -/+ ms_per_beat * threshold; a first onset on an edge of   *)
(* the band is returned, and only the first record of a group counts.      *)
FirstOnly(groups) == [g \in 1..Len(groups) |-> <<groups[g][1]>>]

OnBandEdge(l_oto, mpb2, med2, th) ==
    LET t == l_oto[1].offset + l_oto[1].preutterance
    IN \/ 200 * t = 100 * med2 - mpb2 * th
       \/ 200 * t = 100 * med2 + mpb2 * th

C10_FirstOnsetCheck ==
    Estimated => \A th \in ExaminedThresholds :
        LET result == detect_bad_wavfiles(l_2d, ms_per_beat2, median_start2, th)
            bad == SelectSeq(l_2d, LAMBDA l_oto :
                       LET t == l_oto[1].offset + l_oto[1].preutterance
                       IN \/ 200 * t <= 100 * median_start2 - ms_per_beat2 * th
                          \/ 200 * t >= 100 * median_start2 + ms_per_beat2 * th)
        IN /\ result = FilenamesOf(bad)
           /\ NoDuplicates(result)
           /\ result = detect_bad_wavfiles(FirstOnly(l_2d), ms_per_beat2, median_start2, th)
           /\ \A g \in 1..Len(l_2d) :
                 OnBandEdge(l_2d[g], ms_per_beat2, median_start2, th)
                    => l_2d[g][1].filename \in Range(result)

\* A finished run with a first onset on the edge of the band of 0.25 and a
\* positive beat: returned at 0.25, not returned at 0.3.
C10_Witness ==
    /\ pc = "done"
    /\ ms_per_beat2 > 0
    /\ \E g \in 1..Len(l_2d) : OnBandEdge(l_2d[g], ms_per_beat2, median_start2, 25)
    /\ Sections(s)[5].names # <<>>
    /\ Sections(s)[3].names = <<>>

====
